---- MODULE Spec2Model ----
(***************************************************************************)
(* A model of the tarot reading bot of src/main.py: the deck loaded at     *)
(* import time, the spread catalog, and the command handlers !tarot,       *)
(* !card and !daily together with the error handler on_command_error.      *)
(*                                                                         *)
(* Strings that the code converts character by character (lower, title,    *)
(* replace, the substring test) are sequences of one-character strings;    *)
(* strings that are only copied are TLA+ strings.  The reading text is the *)
(* sequence of its lines, so the [:4096] slice of line 158 is taken over   *)
(* lines and never cuts in this model.  One command runs at a time: the    *)
(* handlers share nothing but the read-only deck and catalog.              *)
(***************************************************************************)
EXTENDS Integers, Sequences, FiniteSets, TLC

(***************************************************************************)
(* Python values and string methods                                        *)
(***************************************************************************)

\* Python's None where a string is expected (question, card_name).
None == "<None>"

\* JSON null in the suit field; falsy like the empty string.
null == <<>>

UpperCase == <<"A","B","C","D","E","F","G","H","I","J","K","L","M",
               "N","O","P","Q","R","S","T","U","V","W","X","Y","Z">>

LowerCase == <<"a","b","c","d","e","f","g","h","i","j","k","l","m",
               "n","o","p","q","r","s","t","u","v","w","x","y","z">>

IsUpper(c) == \E k \in DOMAIN UpperCase : UpperCase[k] = c

IsLower(c) == \E k \in DOMAIN LowerCase : LowerCase[k] = c

IsCased(c) == IsUpper(c) \/ IsLower(c)

lower_char(c) ==
  IF IsUpper(c) THEN LowerCase[CHOOSE k \in DOMAIN UpperCase : UpperCase[k] = c]
  ELSE c

upper_char(c) ==
  IF IsLower(c) THEN UpperCase[CHOOSE k \in DOMAIN LowerCase : LowerCase[k] = c]
  ELSE c

\* str.lower()
str_lower(s) == [k \in 1..Len(s) |-> lower_char(s[k])]

\* str.replace(old, new) for one-character old and new
str_replace(s, old, new) == [k \in 1..Len(s) |-> IF s[k] = old THEN new ELSE s[k]]

\* str.title(): a cased character is upper-cased after an uncased one (or at
\* the start) and lower-cased after a cased one.
str_title(s) ==
  [k \in 1..Len(s) |->
     IF k = 1 \/ ~IsCased(s[k - 1]) THEN upper_char(s[k]) ELSE lower_char(s[k])]

\* the operator `sub in s` on strings
str_in(sub, s) ==
  \E k \in 0..(Len(s) - Len(sub)) : SubSeq(s, k + 1, k + Len(sub)) = sub

\* sep.join(items) on copied strings
RECURSIVE str_join(_, _)
str_join(sep, items) ==
  IF items = <<>> THEN ""
  ELSE IF Len(items) = 1 THEN items[1]
  ELSE items[1] \o sep \o str_join(sep, Tail(items))

\* truthiness of a question argument
Truthy(s) == s # None /\ s # ""

Min(a, b) == IF a <= b THEN a ELSE b

\* zip(a, b): stops at the shorter sequence
zip(a, b) == [k \in 1..Min(Len(a), Len(b)) |-> <<a[k], b[k]>>]

(***************************************************************************)
(* Bounds and inputs                                                       *)
(***************************************************************************)

\* longest deck source enumerated exhaustively
MaxDeck == 2

\* longest !card query enumerated
MaxQueryLen == 2

(***************************************************************************)
(* The spread catalog                                                      *)
(***************************************************************************)

single == <<"s","i","n","g","l","e">>

three_card == <<"t","h","r","e","e","_","c","a","r","d">>

celtic_cross == <<"c","e","l","t","i","c","_","c","r","o","s","s">>

relationship == <<"r","e","l","a","t","i","o","n","s","h","i","p">>

career == <<"c","a","r","e","e","r">>

\* The dict of lines 25-33 in insertion order: items() iterates in this order.
SPREADS ==
  << [key |-> single, positions |-> <<"Present">>],
     [key |-> three_card, positions |-> <<"Past", "Present", "Future">>],
     [key |-> celtic_cross,
      positions |-> <<"1. Present", "2. Challenge", "3. Past", "4. Future",
                      "5. Above", "6. Below", "7. Advice", "8. External",
                      "9. Hopes/Fears", "10. Outcome">>],
     [key |-> relationship,
      positions |-> <<"You", "Partner", "Connection", "Advice">>],
     [key |-> career,
      positions |-> <<"Current Situation", "Challenges", "Opportunities",
                      "Outcome">>] >>

\* spread_type in SPREADS
InSPREADS(spread_type) == \E k \in DOMAIN SPREADS : SPREADS[k].key = spread_type

\* SPREADS[spread_type]
SPREADS_at(spread_type) ==
  SPREADS[CHOOSE k \in DOMAIN SPREADS : SPREADS[k].key = spread_type].positions

\* SPREADS.get(spread_type, [])
SPREADS_get(spread_type) ==
  IF InSPREADS(spread_type) THEN SPREADS_at(spread_type) ELSE <<>>

(***************************************************************************)
(* Deck sources: the records of data/tarot_cards.json                      *)
(***************************************************************************)

major == <<"m","a","j","o","r">>

minor == <<"m","i","n","o","r">>

TheFool ==
  [number |-> "0", name |-> <<"T","h","e"," ","F","o","o","l">>, arcana |-> major,
   suit |-> null, keywords |-> <<"beginnings", "innocence">>,
   meaning_up |-> "A leap of faith.", meaning_rev |-> "Recklessness."]

TheMoon ==
  [number |-> "18", name |-> <<"T","h","e"," ","M","o","o","n">>, arcana |-> major,
   suit |-> null, keywords |-> <<"illusion">>,
   meaning_up |-> "Trust your intuition.", meaning_rev |-> "Confusion lifts."]

AceOfCups ==
  [number |-> "1", name |-> <<"A","c","e"," ","o","f"," ","C","u","p","s">>, arcana |-> minor,
   suit |-> <<"c","u","p","s">>, keywords |-> <<"love", "new feelings">>,
   meaning_up |-> "An open heart.", meaning_rev |-> "Blocked emotions."]

TheSun ==
  [number |-> "19", name |-> <<"T","h","e"," ","S","u","n">>, arcana |-> major,
   suit |-> null, keywords |-> <<"joy">>,
   meaning_up |-> "Success and vitality.", meaning_rev |-> "Clouded optimism."]

\* a record without the name field
Nameless ==
  [number |-> "20", arcana |-> major, suit |-> null,
   keywords |-> <<"rebirth">>,
   meaning_up |-> "A calling.", meaning_rev |-> "Self-doubt."]

CardPool == {TheFool, TheMoon, AceOfCups, Nameless}

RequiredFields ==
  {"number", "name", "arcana", "suit", "keywords", "meaning_up", "meaning_rev"}

\* every sequence of pool records of length at most MaxDeck: the empty
\* list, repeated records and records with a field missing are among them
SmallDecks == UNION {[1..n -> CardPool] : n \in 0..MaxDeck}

\* a well-formed deck large enough for the four-card spreads
SampleDeck == <<TheFool, TheMoon, AceOfCups, TheSun>>

Sources ==
  {[parses |-> TRUE, records |-> d] : d \in SmallDecks \cup {SampleDeck}}
    \cup {[parses |-> FALSE, records |-> <<>>]}

\* what the deck section of the specification asks of a source
HasAllFields(card) == RequiredFields \subseteq DOMAIN card

UniqueNames(deck) ==
  /\ \A k \in DOMAIN deck : "name" \in DOMAIN deck[k]
  /\ \A k, m \in DOMAIN deck : deck[k].name = deck[m].name => k = m

WellFormed(deck) ==
  /\ deck # <<>>
  /\ \A k \in DOMAIN deck : HasAllFields(deck[k])
  /\ UniqueNames(deck)

(***************************************************************************)
(* The card_images directory                                               *)
(***************************************************************************)

\* f"{card['number']}_{card['name'].lower().replace(' ', '_')}.jpg"
card_filename(card) ==
  [number |-> card.number,
   stem |-> str_replace(str_lower(card.name), " ", "_"),
   ext |-> ".jpg"]

\* The directory holds a readable picture of The Fool and an unreadable file
\* under the name of The Moon; no other card has a file.
card_images ==
  { [file |-> card_filename(TheFool), content |-> "picture"],
    [file |-> card_filename(TheMoon), content |-> "garbage"] }

\* os.path.exists(os.path.join('card_images', card_filename))
os_path_exists(card_filename_) == \E f \in card_images : f.file = card_filename_

\* Image.open / rotate / resize succeed on the file
loads(card_filename_) ==
  \E f \in card_images : f.file = card_filename_ /\ f.content = "picture"

(***************************************************************************)
(* class TarotReading                                                      *)
(***************************************************************************)

\* TarotReading.__init__
TarotReading(cards, spread_type_, question_) ==
  [cards |-> cards, spread_type |-> spread_type_, question |-> question_,
   positions |-> SPREADS_get(spread_type_)]

RECURSIVE Flatten(_)
Flatten(seqs) == IF seqs = <<>> THEN <<>> ELSE Head(seqs) \o Flatten(Tail(seqs))

\* the fields one pass of the loop of generate_reading reads from the card
SectionFields(is_reversed) ==
  {"name", "arcana", "suit", "keywords",
   IF is_reversed THEN "meaning_rev" ELSE "meaning_up"}

\* lines 52 and 260
orientation_label(is_reversed) == IF is_reversed THEN "Reversed" ELSE "Upright"

\* the two meanings taken the wrong way round
reading_meaning_swapped(card, is_reversed) ==
  IF is_reversed THEN card.meaning_up ELSE card.meaning_rev

\* lines 63-66
reading_meaning(card, is_reversed) ==
  IF is_reversed THEN card.meaning_rev ELSE card.meaning_up

\* lines 54-68: the lines one pass of the loop appends to the text
card_section(card, position, is_reversed) ==
  << [line |-> "###", text |-> position],
     [line |-> "Card", name |-> card.name,
      orientation |-> orientation_label(is_reversed)],
     [line |-> "Arcana", value |-> str_title(card.arcana)] >>
  \o (IF card.suit # null
        THEN << [line |-> "Suit", value |-> str_title(card.suit)] >>
        ELSE <<>>)
  \o << [line |-> "Keywords", text |-> str_join(", ", card.keywords)],
        [line |-> "Interpretation", text |-> reading_meaning(card, is_reversed)] >>

\* the question line written whether or not a question was given
question_lines_always(question_) ==
  << [line |-> "Question", text |-> question_] >>

\* lines 46-47
question_lines(question_) ==
  IF Truthy(question_)
    THEN << [line |-> "Question", text |-> question_] >>
    ELSE <<>>

\* TarotReading.generate_reading.  coins[k] is the value random.choice
\* returns in the k-th pass of the loop.  A card without a field the loop
\* reads raises KeyError out of the method.
generate_reading(self, coins) ==
  LET pairs == zip(self.cards, self.positions)
      heading == << [line |-> "##",
                     value |-> str_title(str_replace(self.spread_type, "_", " "))] >>
      asked == question_lines(self.question)
  IN  IF \E k \in DOMAIN pairs : ~(SectionFields(coins[k]) \subseteq DOMAIN pairs[k][1])
        THEN [raised |-> "KeyError", text |-> <<>>]
        ELSE [raised |-> None,
              text |-> heading \o asked \o
                       Flatten([k \in DOMAIN pairs |->
                                  card_section(pairs[k][1], pairs[k][2], coins[k])])]

\* lines 78-93: what the try block draws on the canvas.  A missing number or
\* name field and a file that does not load both raise inside the try and
\* are swallowed by the bare except before anything is drawn.
card_face(card, is_reversed) ==
  IF ~({"number", "name"} \subseteq DOMAIN card) THEN <<>>
  ELSE IF os_path_exists(card_filename(card))
    THEN IF loads(card_filename(card))
           THEN << [op |-> "paste", file |-> card_filename(card),
                    rotated |-> is_reversed] >>
           ELSE <<>>
    ELSE << [op |-> "outline"], [op |-> "name", name |-> card.name] >>

\* TarotReading.create_card_image: the drawing operations on the canvas, in
\* order, saved as PNG
create_card_image(card, position, is_reversed) ==
  [format |-> "PNG", size |-> <<400, 600>>,
   canvas |-> << [op |-> "background"] >>
              \o card_face(card, is_reversed)
              \o << [op |-> "bar"],
                    [op |-> "caption", text |-> position],
                    [op |-> "caption",
                     text |-> IF is_reversed THEN "Reversed" ELSE "Upright"] >>]

(***************************************************************************)
(* Messages and the error handler                                          *)
(***************************************************************************)

\* ctx.author.display_name
display_name == "querent"

\* str(error) of the exception discord.py hands to on_command_error
str_error(error) ==
  IF error.type = "CommandInvokeError"
    THEN "Command raised an exception: " \o error.original
    ELSE error.type

\* a handler that answers the two named errors and drops every other one
on_command_error_silent(error) ==
  IF error.type = "CommandNotFound"
    THEN << [kind |-> "text", text |-> "Command not found."] >>
  ELSE IF error.type = "MissingRequiredArgument"
    THEN << [kind |-> "text", text |-> "Missing required argument."] >>
  ELSE <<>>

\* on_command_error: the message it sends
on_command_error(error) ==
  IF error.type = "CommandNotFound"
    THEN << [kind |-> "text",
             text |-> "Command not found."] >>
  ELSE IF error.type = "MissingRequiredArgument"
    THEN << [kind |-> "text",
             text |-> "Missing required argument."] >>
  ELSE << [kind |-> "text", text |-> "An error occurred: " \o str_error(error)] >>

\* an exception raised inside a command body reaches the handler wrapped
CommandInvokeError(exc) == [type |-> "CommandInvokeError", original |-> exc]

\* a listing that stops after the first spread
spreads_embed_first_only ==
  [kind |-> "embed", embed |-> "spreads",
   title |-> "Available Tarot Spreads",
   description |-> "Choose a spread type:",
   fields |-> << [name |-> str_title(str_replace(SPREADS[1].key, "_", " ")),
                  cards |-> Len(SPREADS[1].positions),
                  usage |-> SPREADS[1].key] >>]

\* lines 128-139: the embed listing the catalog
spreads_embed ==
  [kind |-> "embed", embed |-> "spreads",
   title |-> "Available Tarot Spreads",
   description |-> "Choose a spread type:",
   fields |-> [k \in DOMAIN SPREADS |->
                 [name |-> str_title(str_replace(SPREADS[k].key, "_", " ")),
                  cards |-> Len(SPREADS[k].positions),
                  usage |-> SPREADS[k].key]]]

DescriptionLimit == 4096

\* lines 156-165: the embed carrying the reading text
reading_embed(spread_type_, question_, reading_text_) ==
  [kind |-> "embed", embed |-> "reading",
   title |-> str_title(str_replace(spread_type_, "_", " ")),
   description |-> SubSeq(reading_text_, 1, Min(Len(reading_text_), DescriptionLimit)),
   fields |-> IF Truthy(question_)
                THEN << [name |-> "Question", value |-> question_] >>
                ELSE <<>>,
   footer |-> "Reading for " \o display_name]

\* sampling with replacement, as k calls of random.choice would do
random_sample_with_replacement(population, k) ==
  { [j \in 1..k |-> population[pick[j]]] : pick \in [1..k -> DOMAIN population] }

\* random.sample(population, k) for k <= len(population): the lists it can
\* return, k elements taken at pairwise distinct positions
random_sample(population, k) ==
  { [j \in 1..k |-> population[pick[j]]] :
      pick \in {f \in [1..k -> DOMAIN population] :
                  \A a, b \in 1..k : f[a] = f[b] => a = b} }

(***************************************************************************)
(* Lookup and the replies of !card and !daily                              *)
(***************************************************************************)

\* lines 184-185: next() over the generator.  The scan stops at the first
\* match; a record without a name reached before it raises KeyError.
\* index 0 stands for None.
RECURSIVE find_from(_, _, _)
find_from(deck, card_name_, k) ==
  IF k > Len(deck) THEN [raised |-> None, index |-> 0]
  ELSE IF "name" \notin DOMAIN deck[k] THEN [raised |-> "KeyError", index |-> 0]
  ELSE IF str_in(str_lower(card_name_), str_lower(deck[k].name))
    THEN [raised |-> None, index |-> k]
  ELSE find_from(deck, card_name_, k + 1)

find_card(deck, card_name_) == find_from(deck, card_name_, 1)

\* lines 192-207
card_embed(card_) ==
  [kind |-> "embed", embed |-> "card",
   title |-> card_.name,
   color |-> IF card_.arcana = major THEN "gold" ELSE "blue",
   number |-> card_.number,
   arcana |-> str_title(card_.arcana),
   suit |-> IF card_.suit # null THEN str_title(card_.suit) ELSE null,
   keywords |-> str_join(", ", card_.keywords),
   upright_meaning |-> card_.meaning_up,
   reversed_meaning |-> card_.meaning_rev,
   footer |-> "Draw this card with !tarot command"]

\* lines 191-221: what !card sends once it holds a card
card_reply(card_) ==
  IF ~(RequiredFields \subseteq DOMAIN card_)
    THEN [raised |-> "KeyError", sent |-> <<>>]
    ELSE [raised |-> None,
          sent |-> << card_embed(card_) >>
                   \o (IF os_path_exists(card_filename(card_))
                         THEN << [kind |-> "file", filename |-> "tarot_card.jpg",
                                  path |-> card_filename(card_)] >>
                         ELSE <<>>)]

\* line 259
daily_meaning(card_, is_reversed) ==
  IF is_reversed THEN card_.meaning_rev ELSE card_.meaning_up

\* lines 259-277
daily_embed(card_, is_reversed) ==
  [kind |-> "embed", embed |-> "daily",
   title |-> "Your Daily Tarot Card",
   name |-> card_.name,
   orientation |-> orientation_label(is_reversed),
   message |-> daily_meaning(card_, is_reversed),
   keywords |-> str_join(", ", card_.keywords),
   advice |-> IF is_reversed
                THEN "This card reversed suggests you may need to reconsider this area of your life."
                ELSE "This card upright is a positive sign. Embrace its energy today.",
   footer |-> "For " \o display_name]

\* every image rendered with the orientation of the first card
loop_item_first_flip(drawn, positions, flips, k) ==
  [card |-> zip(drawn, positions)[k][1],
   position |-> zip(drawn, positions)[k][2],
   is_reversed |-> flips[1]]

\* lines 170-171: what the k-th pass of the image loop renders
loop_item(drawn, positions, flips, k) ==
  [card |-> zip(drawn, positions)[k][1],
   position |-> zip(drawn, positions)[k][2],
   is_reversed |-> flips[k]]

(***************************************************************************)
(* Command arguments                                                       *)
(***************************************************************************)

help == <<"h","e","l","p">>

SpreadArgs == {SPREADS[k].key : k \in DOMAIN SPREADS} \cup {help}

Questions == {None, "Will I get the job?"}

\* card_name left out (None): falsy like the empty string
NoArg == <<>>

QueryChars == {"o", "O", "s", "z"}

Queries == {NoArg} \cup UNION {[1..n -> QueryChars] : n \in 1..MaxQueryLen}

\* a local variable that holds no card
Unbound == [unbound |-> TRUE]

(***************************************************************************)
(* State                                                                   *)
(***************************************************************************)

VARIABLES
  source,        \* the content of data/tarot_cards.json
  TOKEN,         \* os.getenv('DISCORD_TOKEN')
  pc,            \* "import", "main", "ready", "images", "done", "crashed",
                 \* "stopped"
  tarot_cards,   \* the module-level deck
  command,       \* the command being served, or served last
  spread_type,   \* arguments and locals of the command
  question,
  card_name,
  drawn_cards,
  orientations,
  reading_text,
  card,
  i,
  raised,        \* the exception the command body raised, or None
  sent           \* what ctx.send has sent for the command, in order

vars == <<source, TOKEN, pc, tarot_cards, command, spread_type, question,
          card_name, drawn_cards, orientations, reading_text, card, i,
          raised, sent>>

locals == <<spread_type, question, card_name, drawn_cards, orientations,
            reading_text, card, i>>

Init ==
  /\ source \in Sources
  /\ TOKEN \in {None, "token"}
  /\ pc = "import"
  /\ tarot_cards = <<>>
  /\ command = None
  /\ spread_type = <<>>
  /\ question = None
  /\ card_name = NoArg
  /\ drawn_cards = <<>>
  /\ orientations = <<>>
  /\ reading_text = <<>>
  /\ card = Unbound
  /\ i = 0
  /\ raised = None
  /\ sent = <<>>

\* lines 20-22: json.load at import time; a file that is not JSON raises out
\* of the module and the process ends
load_deck ==
  /\ pc = "import"
  /\ IF source.parses
       THEN tarot_cards' = source.records /\ pc' = "main"
       ELSE tarot_cards' = tarot_cards /\ pc' = "crashed"
  /\ UNCHANGED <<source, TOKEN, command, locals, raised, sent>>

\* lines 323-329
run_bot ==
  /\ pc = "main"
  /\ pc' = IF TOKEN = None THEN "stopped" ELSE "ready"
  /\ UNCHANGED <<source, TOKEN, tarot_cards, command, locals, raised, sent>>

\* a command body raised exc: discord.py dispatches on_command_error, the
\* invocation is over and the bot goes on serving
Raise(exc) ==
  /\ raised' = exc
  /\ sent' = on_command_error(CommandInvokeError(exc))
  /\ pc' = "done"

\* lines 122-167: !tarot up to the first message it sends
tarot_reading(spread_type_, question_) ==
  /\ pc = "ready"
  /\ command' = "tarot"
  /\ spread_type' = spread_type_
  /\ question' = question_
  /\ card_name' = NoArg
  /\ card' = Unbound
  /\ i' = 0
  /\ IF ~InSPREADS(spread_type_)
       THEN /\ sent' = << spreads_embed >>
            /\ raised' = None
            /\ pc' = "done"
            /\ drawn_cards' = <<>> /\ orientations' = <<>> /\ reading_text' = <<>>
       ELSE LET num_cards == Len(SPREADS_at(spread_type_)) IN
            IF num_cards > Len(tarot_cards)
              THEN \* random.sample raises ValueError
                   /\ Raise("ValueError")
                   /\ drawn_cards' = <<>> /\ orientations' = <<>>
                   /\ reading_text' = <<>>
              ELSE \E cards \in random_sample(tarot_cards, num_cards),
                      flips \in [1..num_cards -> BOOLEAN],
                      coins \in [1..num_cards -> BOOLEAN] :
                     LET reading == TarotReading(cards, spread_type_, question_)
                         result == generate_reading(reading, coins)
                     IN  /\ drawn_cards' = cards
                         /\ orientations' = flips
                         /\ IF result.raised # None
                              THEN /\ Raise(result.raised)
                                   /\ reading_text' = <<>>
                              ELSE /\ reading_text' = result.text
                                   /\ sent' = << reading_embed(spread_type_, question_,
                                                               result.text) >>
                                   /\ raised' = None
                                   /\ pc' = "images"
  /\ UNCHANGED <<source, TOKEN, tarot_cards>>

\* lines 170-173: one pass of the image loop
send_card_image ==
  /\ pc = "images"
  /\ LET item == loop_item(drawn_cards, SPREADS_at(spread_type), orientations, i + 1)
         img_bytes == create_card_image(item.card, item.position, item.is_reversed)
     IN  sent' = Append(sent, [kind |-> "file",
                               filename |-> [stem |-> "card_", n |-> i + 1,
                                             ext |-> ".png"],
                               image |-> img_bytes])
  /\ i' = i + 1
  /\ pc' = IF i + 1 = Len(zip(drawn_cards, SPREADS_at(spread_type)))
             THEN "done" ELSE "images"
  /\ UNCHANGED <<source, TOKEN, tarot_cards, command, spread_type, question,
                 card_name, drawn_cards, orientations, reading_text, card, raised>>

\* lines 175-221: !card
single_card(card_name_) ==
  /\ pc = "ready"
  /\ command' = "card"
  /\ card_name' = card_name_
  /\ spread_type' = <<>> /\ question' = None /\ drawn_cards' = <<>>
  /\ orientations' = <<>> /\ reading_text' = <<>> /\ i' = 0
  /\ IF card_name_ = NoArg
       THEN IF tarot_cards = <<>>
              THEN \* random.choice raises IndexError
                   Raise("IndexError") /\ card' = Unbound
              ELSE \E k \in DOMAIN tarot_cards :
                     /\ card' = tarot_cards[k]
                     /\ IF card_reply(tarot_cards[k]).raised # None
                          THEN Raise(card_reply(tarot_cards[k]).raised)
                          ELSE /\ sent' = card_reply(tarot_cards[k]).sent
                               /\ raised' = None /\ pc' = "done"
       ELSE LET found == find_card(tarot_cards, card_name_) IN
            IF found.raised # None
              THEN Raise(found.raised) /\ card' = Unbound
            ELSE IF found.index = 0
              THEN /\ sent' = << [kind |-> "text", text |-> "Card not found.",
                                  card_name |-> card_name_] >>
                   /\ raised' = None /\ pc' = "done" /\ card' = Unbound
            ELSE /\ card' = tarot_cards[found.index]
                 /\ IF card_reply(tarot_cards[found.index]).raised # None
                      THEN Raise(card_reply(tarot_cards[found.index]).raised)
                      ELSE /\ sent' = card_reply(tarot_cards[found.index]).sent
                           /\ raised' = None /\ pc' = "done"
  /\ UNCHANGED <<source, TOKEN, tarot_cards>>

\* lines 253-279: !daily
daily_draw ==
  /\ pc = "ready"
  /\ command' = "daily"
  /\ spread_type' = <<>> /\ question' = None /\ card_name' = NoArg
  /\ drawn_cards' = <<>> /\ reading_text' = <<>> /\ i' = 0
  /\ IF tarot_cards = <<>>
       THEN \* random.choice raises IndexError
            Raise("IndexError") /\ card' = Unbound /\ orientations' = <<>>
       ELSE \E k \in DOMAIN tarot_cards, is_reversed \in BOOLEAN :
              /\ card' = tarot_cards[k]
              /\ orientations' = << is_reversed >>
              /\ IF ~({IF is_reversed THEN "meaning_rev" ELSE "meaning_up",
                       "name", "keywords"} \subseteq DOMAIN tarot_cards[k])
                   THEN Raise("KeyError")
                   ELSE /\ sent' = << daily_embed(tarot_cards[k], is_reversed) >>
                        /\ raised' = None /\ pc' = "done"
  /\ UNCHANGED <<source, TOKEN, tarot_cards>>

\* a message that names no command: discord.py raises CommandNotFound
unknown_command ==
  /\ pc = "ready"
  /\ command' = "unknown"
  /\ raised' = "CommandNotFound"
  /\ sent' = on_command_error([type |-> "CommandNotFound"])
  /\ pc' = "done"
  /\ spread_type' = <<>> /\ question' = None /\ card_name' = NoArg
  /\ drawn_cards' = <<>> /\ orientations' = <<>> /\ reading_text' = <<>>
  /\ card' = Unbound /\ i' = 0
  /\ UNCHANGED <<source, TOKEN, tarot_cards>>

\* the invocation is over: its frame is dropped and the bot waits for the
\* next message
command_returns ==
  /\ pc = "done"
  /\ pc' = "ready"
  /\ command' = None
  /\ spread_type' = <<>> /\ question' = None /\ card_name' = NoArg
  /\ drawn_cards' = <<>> /\ orientations' = <<>> /\ reading_text' = <<>>
  /\ card' = Unbound /\ i' = 0
  /\ raised' = None
  /\ sent' = <<>>
  /\ UNCHANGED <<source, TOKEN, tarot_cards>>

Next ==
  \/ load_deck
  \/ run_bot
  \/ \E spread_type_ \in SpreadArgs, question_ \in Questions :
       tarot_reading(spread_type_, question_)
  \/ send_card_image
  \/ \E card_name_ \in Queries : single_card(card_name_)
  \/ daily_draw
  \/ unknown_command
  \/ command_returns

Spec == Init /\ [][Next]_vars

(***************************************************************************)
(* Properties                                                              *)
(***************************************************************************)

\* a !tarot invocation for a catalog spread is in progress or just over
TarotOnCatalog == command = "tarot" /\ InSPREADS(spread_type)

\* ... and it has rendered its text
TarotRendered == TarotOnCatalog /\ raised = None /\ pc \in {"images", "done"}

\* the indices of the section headings of a text, in order
Headings(text) ==
  SelectSeq([k \in 1..Len(text) |-> k], LAMBDA k : text[k].line = "###")

\* the one line of a kind in the j-th section, which runs from its heading
\* up to the next heading
SectionLine(text, j, kind) ==
  LET heads == Headings(text)
      last == IF j < Len(heads) THEN heads[j + 1] - 1 ELSE Len(text)
  IN  text[CHOOSE k \in heads[j]..last : text[k].line = kind]

\* C1: for a catalog spread and a deck with unique card names and at least as
\* many cards as the spread has positions, the draw of !tarot holds exactly
\* one card per position and no card name twice.
C1_DrawDistinct ==
  ( /\ TarotOnCatalog
    /\ UniqueNames(tarot_cards)
    /\ Len(tarot_cards) >= Len(SPREADS_at(spread_type)) )
  => /\ Len(drawn_cards) = Len(SPREADS_at(spread_type))
     /\ \A a, b \in DOMAIN drawn_cards :
          drawn_cards[a].name = drawn_cards[b].name => a = b

C1_Witness ==
  /\ TarotOnCatalog
  /\ UniqueNames(tarot_cards)
  /\ spread_type = relationship
  /\ Len(drawn_cards) = 4
  /\ pc = "done"

\* C2: the orientation label the reading text shows for each card is the one
\* of the reversed flag the draw assigned to that card.
C2_TextFollowsDraw ==
  TarotRendered =>
    \A j \in DOMAIN orientations :
      SectionLine(reading_text, j, "Card").orientation
        = orientation_label(orientations[j])

\* C3: for a spread identifier outside the catalog, !tarot draws no card and
\* flips no orientation, sends the catalog listing with one field per spread
\* and nothing else, and returns.
C3_UnknownSpreadListsCatalog ==
  (command = "tarot" /\ ~InSPREADS(spread_type))
  => /\ drawn_cards = <<>>
     /\ orientations = <<>>
     /\ reading_text = <<>>
     /\ pc = "done"
     /\ raised = None
     /\ Len(sent) = 1
     /\ sent[1].kind = "embed"
     /\ sent[1].embed = "spreads"
     /\ Len(sent[1].fields) = Len(SPREADS)
     /\ \A k \in DOMAIN SPREADS : sent[1].fields[k].usage = SPREADS[k].key

C3_Witness ==
  /\ command = "tarot"
  /\ spread_type = help
  /\ tarot_cards = SampleDeck
  /\ Len(sent) = 1

\* C4: when a catalog spread needs more cards than the deck holds, !tarot
\* sends one error message and neither a reading embed nor a card image,
\* and the bot goes on serving.
C4_TooFewCardsReported ==
  (TarotOnCatalog /\ Len(SPREADS_at(spread_type)) > Len(tarot_cards))
  => /\ pc = "done"
     /\ Len(sent) = 1
     /\ sent[1].kind = "text"
     /\ drawn_cards = <<>>
     /\ reading_text = <<>>

C4_Witness ==
  /\ TarotOnCatalog
  /\ spread_type = celtic_cross
  /\ tarot_cards = SampleDeck
  /\ raised = "ValueError"
  /\ Len(sent) = 1

\* the asset outcome of a card's picture
AssetMissing(card_) == ~os_path_exists(card_filename(card_))

AssetFailsToLoad(card_) ==
  os_path_exists(card_filename(card_)) /\ ~loads(card_filename(card_))

HasPlaceholder(image) ==
  /\ \E k \in DOMAIN image.canvas : image.canvas[k].op = "outline"
  /\ \E k \in DOMAIN image.canvas : image.canvas[k].op = "name"

\* C5: every card image is returned as encoded bytes, and when the card's
\* picture is missing or fails to load the placeholder is on the canvas.
C5_PlaceholderOnFailure ==
  TarotRendered =>
    \A k \in 1..i :
      /\ sent[k + 1].image.format = "PNG"
      /\ (AssetMissing(drawn_cards[k]) \/ AssetFailsToLoad(drawn_cards[k]))
           => HasPlaceholder(sent[k + 1].image)

\* C6: the text of a reading has exactly one section per drawn card, the j-th
\* headed by the j-th position label and naming the j-th drawn card, and it
\* has the question line exactly when a question was given.
C6_OneSectionPerCard ==
  TarotRendered =>
    LET heads == Headings(reading_text) IN
    /\ Len(heads) = Len(drawn_cards)
    /\ Cardinality({k \in DOMAIN reading_text : reading_text[k].line = "Card"})
         = Len(drawn_cards)
    /\ \A j \in DOMAIN drawn_cards :
         /\ reading_text[heads[j]].text = SPREADS_at(spread_type)[j]
         /\ reading_text[heads[j] + 1].line = "Card"
         /\ reading_text[heads[j] + 1].name = drawn_cards[j].name
    /\ (\E k \in DOMAIN reading_text : reading_text[k].line = "Question")
         <=> question # None
    /\ \A k \in DOMAIN reading_text :
         reading_text[k].line = "Question" => reading_text[k].text = question

C6_Witness ==
  /\ TarotRendered
  /\ spread_type = three_card
  /\ question # None
  /\ Len(Headings(reading_text)) = 3
  /\ drawn_cards[1] # tarot_cards[1]

\* C7: a source with a record missing a required field, with two records of
\* one name, or with no record is rejected, and the bot never serves from it.
C7_MalformedSourceRejected ==
  (source.parses /\ ~WellFormed(source.records))
  => pc \notin {"ready", "images", "done"}

\* the first card, in deck order, whose name contains the query, case ignored
FirstMatch(deck, query) ==
  LET hits == {k \in DOMAIN deck :
                 /\ "name" \in DOMAIN deck[k]
                 /\ str_in(str_lower(query), str_lower(deck[k].name))}
  IN  IF hits = {} THEN 0 ELSE CHOOSE k \in hits : \A m \in hits : k <= m

\* C8: !card with a query shows the first card in deck order whose name
\* contains the query, case ignored; when there is none it sends the
\* not-found message, raises nothing and sends no card embed.
C8_LookupFirstMatch ==
  (command = "card" /\ card_name # NoArg)
  => IF FirstMatch(tarot_cards, card_name) = 0
       THEN /\ raised = None
            /\ Len(sent) = 1
            /\ sent[1].kind = "text"
            /\ "card_name" \in DOMAIN sent[1]
       ELSE card = tarot_cards[FirstMatch(tarot_cards, card_name)]

\* C9: a reading sends its text first and then one image per drawn card in
\* position order, the k-th image rendered from the k-th drawn card, the
\* k-th position label and the k-th drawn orientation.
C9_TextThenImagesInOrder ==
  TarotRendered =>
    /\ Len(sent) = 1 + i
    /\ sent[1].kind = "embed" /\ sent[1].embed = "reading"
    /\ pc = "done" => i = Len(SPREADS_at(spread_type))
    /\ \A k \in 1..i :
         /\ sent[k + 1].kind = "file"
         /\ sent[k + 1].filename.n = k
         /\ sent[k + 1].image
              = create_card_image(drawn_cards[k], SPREADS_at(spread_type)[k],
                                  orientations[k])
         /\ LET canvas == sent[k + 1].image.canvas
            IN  /\ canvas[Len(canvas) - 1].text = SPREADS_at(spread_type)[k]
                /\ canvas[Len(canvas)].text
                     = (IF orientations[k] THEN "Reversed" ELSE "Upright")

C9_Witness ==
  /\ TarotRendered
  /\ pc = "done"
  /\ Len(sent) = 5
  /\ orientations[1] # orientations[2]
  /\ drawn_cards[1] = TheSun

\* C10: wherever an orientation is shown with a meaning, the meaning is the
\* card's meaning_rev when the label is Reversed and its meaning_up when the
\* label is Upright.
C10_MeaningMatchesLabel ==
  /\ TarotRendered =>
       \A j \in DOMAIN drawn_cards :
         LET label == SectionLine(reading_text, j, "Card").orientation
             shown == SectionLine(reading_text, j, "Interpretation").text
         IN  /\ label \in {"Reversed", "Upright"}
             /\ label = "Reversed" => shown = drawn_cards[j].meaning_rev
             /\ label = "Upright" => shown = drawn_cards[j].meaning_up
  /\ (command = "daily" /\ raised = None) =>
       /\ sent[1].orientation \in {"Reversed", "Upright"}
       /\ sent[1].orientation = "Reversed" => sent[1].message = card.meaning_rev
       /\ sent[1].orientation = "Upright" => sent[1].message = card.meaning_up

C10_Witness ==
  /\ TarotRendered
  /\ Len(drawn_cards) = 3
  /\ SectionLine(reading_text, 1, "Card").orientation = "Reversed"
  /\ SectionLine(reading_text, 2, "Card").orientation = "Upright"
  /\ orientations = <<FALSE, TRUE, FALSE>>

====
